---- MODULE Spec2Model ----
(***************************************************************************)
(* Model of BusinessNumbers.donate_kbase_points (src/business_numbers.py). *)
(*                                                                         *)
(* A caller invokes the retry-decorated method.  One attempt runs          *)
(*   validate -> transaction() -> get_user -> check -> decrement ->        *)
(*   save_user -> leave the transaction scope -> return                    *)
(* and every store primitive may raise.  The except clauses of the method  *)
(* classify the exception, the retry decorator decides whether another     *)
(* attempt follows.  The store (dbwrapper) is an external collaborator: it *)
(* is modelled as a transactional key-value store that commits the writes  *)
(* of a scope when the scope is left normally and drops them when it is    *)
(* left by an exception.                                                   *)
(***************************************************************************)
EXTENDS Integers, Sequences, FiniteSets, TLC

\* ---------------------------------------------------------------- bounds
MaxBalance == 2
MaxPoints == 3
MaxUpdateId == 2

\* ------------------------------------------------------ program constants
StopAfterAttempt == 3
WaitFixed == 1

\* ------------------------------------------------------------- the domain
Usernames == {"alice", "bob"}
\* Callers holds every caller the store knows; SeqCallers the one caller of
\* the sequential specification, whose calls follow one another.
SeqCallers == {1}
Callers == {1, 2}
NoCaller == 0

Balances == 0..MaxBalance
UpdateIds == 1..MaxUpdateId
NoUpdateId == 0

\* A Python value handed in as magic_kbase_points: its type and, for the
\* numeric types, its value (True is 1 and False is 0; 2.0 is a float).
IntPoints == [type : {"int"}, val : (-1)..MaxPoints]
BoolPoints == [type : {"bool"}, val : {0, 1}]
OtherPoints == [type : {"float", "str", "NoneType"}, val : {2}]
PointsValues == IntPoints \cup BoolPoints \cup OtherPoints

\* A type test that also lets floats through.
IsInstanceNumber(v) == v.type \in {"int", "bool", "float"}

\* isinstance(v, int): bool is a subclass of int
IsInstanceInt(v) == v.type \in {"int", "bool"}

\* An exception: its class, its argument (the username of a
\* NoSuchUserError), the class of its __cause__ and of the cause's cause.
Exc(cls, arg, cause, root) == [cls |-> cls, arg |-> arg, cause |-> cause, root |-> root]
NoExc == Exc("None", "", "None", "None")

\* What a store primitive can raise.
StoreRaises == {"FutureTimeoutError", "Exception", "ValueError", "NoSuchUserError"}
StoreExc(cls) == Exc(cls, "<store>", "None", "None")

\* An account as the store holds it / as get_user returns it.
NoAccount == [exists |-> FALSE, kbase_points |-> 0]
Account(b) == [exists |-> TRUE, kbase_points |-> b]
NoneUser == [present |-> FALSE, name |-> "", kbase_points |-> 0]
UserObj(n, b) == [present |-> TRUE, name |-> n, kbase_points |-> b]

NoResult == [username |-> "", remaining_kbase_points |-> 0, update_id |-> NoUpdateId]

VARIABLES
    committed,   \* store: username -> committed account
    txOwner,     \* store: the caller inside the transaction scope, or NoCaller
    txWrite,     \* store: the write save_user buffered in the open scope
    lastSaveId,  \* store: the identifier the last save_user of the caller's call returned
    pc,          \* caller -> position in the call
    args,        \* caller -> [username, points] of the running call
    attempt,     \* caller -> attempt number of the retry decorator
    user,        \* caller -> local `user`
    update_id,   \* caller -> local `update_id`
    fnExc,       \* caller -> exception that left the method body
    outcome,     \* caller -> what the caller of donate receives
    log,         \* caller -> severities logged during the call
    waited,      \* caller -> time slept by the retry decorator in the call
    calls        \* caller -> bookkeeping of the call (store calls, commits)

vars == <<committed, txOwner, txWrite, lastSaveId, pc, args, attempt, user,
          update_id, fnExc, outcome, log, waited, calls>>

storeVars == <<committed, txOwner, txWrite, lastSaveId>>

NoArgs == [username |-> "", points |-> [type |-> "NoneType", val |-> 2]]
NoOutcome == [kind |-> "none", result |-> NoResult, error |-> NoExc]
Returned(r) == [kind |-> "result", result |-> r, error |-> NoExc]
Raised(e) == [kind |-> "error", result |-> NoResult, error |-> e]

\* Bookkeeping of one call: the store calls made, how many of them raised
\* and how many of those were get_user timeouts, the commits, the committed
\* accounts when the call started, what get_user returned in the running
\* attempt, the account as it was at the start of the caller's previous call
\* when the call repeats the arguments of that call and that call returned a
\* result without any store call raising, the class of the exception a store
\* call raised in the running attempt.
NoPrev == NoAccount
NoFetch == [returned |-> FALSE, user |-> NoneUser]
Fetched(u) == [returned |-> TRUE, user |-> u]
NoCalls == [nTx |-> 0, nGet |-> 0, nSave |-> 0, nCommit |-> 0,
            nRaise |-> 0, nGetTimeout |-> 0,
            before |-> [n \in Usernames |-> NoAccount], fetched |-> NoFetch,
            prev |-> NoPrev, raised |-> "None"]

Init ==
    /\ committed \in [Usernames -> {NoAccount} \cup {Account(b) : b \in Balances}]
    /\ txOwner = NoCaller
    /\ txWrite = [p \in Callers |-> NoneUser]
    /\ lastSaveId = [p \in Callers |-> NoUpdateId]
    /\ pc = [p \in Callers |-> "idle"]
    /\ args = [p \in Callers |-> NoArgs]
    /\ attempt = [p \in Callers |-> 0]
    /\ user = [p \in Callers |-> NoneUser]
    /\ update_id = [p \in Callers |-> NoUpdateId]
    /\ fnExc = [p \in Callers |-> NoExc]
    /\ outcome = [p \in Callers |-> NoOutcome]
    /\ log = [p \in Callers |-> <<>>]
    /\ waited = [p \in Callers |-> 0]
    /\ calls = [p \in Callers |-> NoCalls]

\* ------------------------------------------------------------ the method

\* A value test that lets zero through.
Negative(v) == v.val < 0

\* magic_kbase_points <= 0
NonPositive(v) == v.val <= 0

\* A balance check that also refuses the whole balance.
InsufficientPointsOrEqual(u, v) == u.kbase_points <= v.val

\* No balance check at all.
InsufficientPointsNever(u, v) == FALSE

\* A balance check that is off by one.
InsufficientPointsOffByOne(u, v) == u.kbase_points < v.val - 1

\* user.kbase_points < magic_kbase_points
InsufficientPoints(u, v) == u.kbase_points < v.val

\* Except clauses without the clause for ValueError.
ExceptClausesNoValueError(e) ==
    IF e.cls = "NoSuchUserError" THEN [exc |-> e, log |-> <<>>]
    ELSE [exc |-> Exc("DatabaseOperationError", "Failed to process donation after retries.",
                      e.cls, "None"),
          log |-> <<"critical">>]

\* Except clauses without the clause that re-raises NoSuchUserError.
ExceptClausesNoReraise(e) ==
    IF e.cls = "ValueError" THEN [exc |-> e, log |-> <<"error">>]
    ELSE [exc |-> Exc("DatabaseOperationError", "Failed to process donation after retries.",
                      e.cls, "None"),
          log |-> <<"critical">>]

\* The except clauses: NoSuchUserError and ValueError leave unchanged (the
\* latter logged as error), everything else is logged as critical and
\* replaced by a DatabaseOperationError raised from it.
ExceptClauses(e) ==
    IF e.cls = "NoSuchUserError" THEN [exc |-> e, log |-> <<>>]
    ELSE IF e.cls = "ValueError" THEN [exc |-> e, log |-> <<"error">>]
    ELSE [exc |-> Exc("DatabaseOperationError", "Failed to process donation after retries.",
                      e.cls, "None"),
          log |-> <<"critical">>]

\* A retry condition that names the timeout only.
RetryIfTimeoutOnly(e) == e.cls = "FutureTimeoutError"

\* retry_if_exception_type((FutureTimeoutError, DatabaseOperationError))
RetryIfExceptionType(e) == e.cls \in {"FutureTimeoutError", "DatabaseOperationError"}

\* A stop condition that allows one attempt more.
StopAfterOneMore(n) == n > StopAfterAttempt

\* stop_after_attempt(3)
StopAfter(n) == n >= StopAfterAttempt

\* A wait that doubles with every attempt.
WaitExponential(n) == 2 ^ (n - 1)

\* wait_fixed(1): the delay after attempt n
Wait(n) == WaitFixed

\* A decorator that retries on every exception.
RetriedAlways(e) == TRUE

\* Whether the decorator considers the exception of an attempt for a retry.
Retried(e) == RetryIfExceptionType(e)

\* What the decorator raises once it stops: a RetryError raised from the
\* exception of the last attempt (reraise is left at its default).
RetryError(e) == Exc("RetryError", "", e.cls, e.cause)

\* A result whose remaining balance is off by one.
ResultStaleBalance(username, u, id) ==
    [username |-> username, remaining_kbase_points |-> u.kbase_points + 1, update_id |-> id]

\* The dict returned on success.
Result(username, u, id) ==
    [username |-> username, remaining_kbase_points |-> u.kbase_points, update_id |-> id]

\* Leaving the scope by an exception without dropping the buffered write.
RaiseInTryCommits(p, e, logged) ==
    /\ txOwner' = IF txOwner = p THEN NoCaller ELSE txOwner
    /\ committed' = IF txWrite[p].present
                    THEN [committed EXCEPT ![txWrite[p].name] = Account(txWrite[p].kbase_points)]
                    ELSE committed
    /\ txWrite' = [txWrite EXCEPT ![p] = NoneUser]
    /\ fnExc' = [fnExc EXCEPT ![p] = ExceptClauses(e).exc]
    /\ log' = [log EXCEPT ![p] = @ \o logged \o ExceptClauses(e).log]
    /\ pc' = [pc EXCEPT ![p] = "raised"]
    /\ UNCHANGED <<args, attempt, outcome, waited>>

\* An exception e is raised inside the try block by caller p: the
\* transaction scope, if p is inside it, is left with the exception (the
\* buffered write is dropped), then the except clauses run.
RaiseInTry(p, e, logged) ==
    /\ txOwner' = IF txOwner = p THEN NoCaller ELSE txOwner
    /\ txWrite' = [txWrite EXCEPT ![p] = NoneUser]
    /\ fnExc' = [fnExc EXCEPT ![p] = ExceptClauses(e).exc]
    /\ log' = [log EXCEPT ![p] = @ \o logged \o ExceptClauses(e).log]
    /\ pc' = [pc EXCEPT ![p] = "raised"]
    /\ UNCHANGED <<committed, args, attempt, outcome, waited>>

\* The caller invokes donate_kbase_points(username, v).
Call(p, username, v) ==
    /\ pc[p] \in {"idle", "done"}
    /\ args' = [args EXCEPT ![p] = [username |-> username, points |-> v]]
    /\ attempt' = [attempt EXCEPT ![p] = 1]
    /\ user' = [user EXCEPT ![p] = NoneUser]
    /\ update_id' = [update_id EXCEPT ![p] = NoUpdateId]
    /\ fnExc' = [fnExc EXCEPT ![p] = NoExc]
    /\ outcome' = [outcome EXCEPT ![p] = NoOutcome]
    /\ log' = [log EXCEPT ![p] = <<>>]
    /\ waited' = [waited EXCEPT ![p] = 0]
    /\ calls' = [calls EXCEPT ![p] =
                     [NoCalls EXCEPT !.before = committed,
                                     !.prev = IF /\ outcome[p].kind = "result"
                                                 /\ calls[p].nRaise = 0
                                                 /\ args[p] = [username |-> username,
                                                                points |-> v]
                                              THEN calls[p].before[username]
                                              ELSE NoPrev]]
    /\ lastSaveId' = [lastSaveId EXCEPT ![p] = NoUpdateId]
    /\ pc' = [pc EXCEPT ![p] = "validate"]
    /\ UNCHANGED <<committed, txOwner, txWrite>>

\* Validation of the type and the value of magic_kbase_points, before the
\* try block: the exceptions do not pass the except clauses.
Validate(p) ==
    /\ pc[p] = "validate"
    /\ LET v == args[p].points IN
       IF ~IsInstanceInt(v)
       THEN /\ log' = [log EXCEPT ![p] = Append(@, "error")]
            /\ fnExc' = [fnExc EXCEPT ![p] =
                   Exc("TypeError", "Donation points must be an integer.", "None", "None")]
            /\ pc' = [pc EXCEPT ![p] = "raised"]
       ELSE IF NonPositive(v)
       THEN /\ log' = [log EXCEPT ![p] = Append(@, "error")]
            /\ fnExc' = [fnExc EXCEPT ![p] =
                   Exc("ValueError", "Donation points must be a positive integer.", "None", "None")]
            /\ pc' = [pc EXCEPT ![p] = "raised"]
       ELSE /\ pc' = [pc EXCEPT ![p] = "enter"]
            /\ UNCHANGED <<log, fnExc>>
    /\ UNCHANGED <<storeVars, args, attempt, user, update_id, outcome, waited, calls>>

\* Entering a scope that does not exclude the scope of another caller.
TxEnterNoIsolation(p) ==
    /\ pc[p] = "enter"
    /\ txOwner' = p
    /\ calls' = [calls EXCEPT ![p].nTx = @ + 1]
    /\ pc' = [pc EXCEPT ![p] = "get"]
    /\ UNCHANGED <<committed, txWrite, lastSaveId, args, attempt, user, update_id,
                   fnExc, outcome, log, waited>>

\* with self.dbwrapper.transaction(): the scope is entered.
TxEnter(p) ==
    /\ pc[p] = "enter"
    /\ txOwner = NoCaller
    /\ txOwner' = p
    /\ calls' = [calls EXCEPT ![p].nTx = @ + 1]
    /\ pc' = [pc EXCEPT ![p] = "get"]
    /\ UNCHANGED <<committed, txWrite, lastSaveId, args, attempt, user, update_id,
                   fnExc, outcome, log, waited>>

\* transaction() raises.
TxEnterRaises(p, cls) ==
    /\ pc[p] = "enter"
    /\ calls' = [calls EXCEPT ![p].nTx = @ + 1, ![p].nRaise = @ + 1, ![p].raised = cls]
    /\ RaiseInTry(p, StoreExc(cls), <<>>)
    /\ UNCHANGED <<lastSaveId, user, update_id>>

\* A fetch that hands out the account as it was when the call started.
GetUserStale(p) ==
    /\ pc[p] = "get"
    /\ LET acc == calls[p].before[args[p].username]
           u == IF acc.exists THEN UserObj(args[p].username, acc.kbase_points)
                ELSE NoneUser
       IN /\ user' = [user EXCEPT ![p] = u]
          /\ calls' = [calls EXCEPT ![p].nGet = @ + 1, ![p].fetched = Fetched(u)]
    /\ pc' = [pc EXCEPT ![p] = "check"]
    /\ UNCHANGED <<storeVars, args, attempt, update_id, fnExc, outcome, log, waited>>

\* user = self.dbwrapper.get_user(username, timeout=2)
GetUser(p) ==
    /\ pc[p] = "get"
    /\ LET acc == committed[args[p].username]
           u == IF acc.exists THEN UserObj(args[p].username, acc.kbase_points)
                ELSE NoneUser
       IN /\ user' = [user EXCEPT ![p] = u]
          /\ calls' = [calls EXCEPT ![p].nGet = @ + 1, ![p].fetched = Fetched(u)]
    /\ pc' = [pc EXCEPT ![p] = "check"]
    /\ UNCHANGED <<storeVars, args, attempt, update_id, fnExc, outcome, log, waited>>

\* get_user raises (FutureTimeoutError when the timeout expires).
GetUserRaises(p, cls) ==
    /\ pc[p] = "get"
    /\ calls' = [calls EXCEPT ![p].nGet = @ + 1, ![p].nRaise = @ + 1, ![p].raised = cls,
                              ![p].nGetTimeout = @ + (IF cls = "FutureTimeoutError" THEN 1 ELSE 0)]
    /\ RaiseInTry(p, StoreExc(cls), <<>>)
    /\ UNCHANGED <<lastSaveId, user, update_id>>

\* The not-found check, the balance check and the decrement of the fetched
\* object.
CheckUser(p) ==
    /\ pc[p] = "check"
    /\ LET u == user[p]
           v == args[p].points
       IN IF ~u.present
          THEN /\ RaiseInTry(p, Exc("NoSuchUserError", args[p].username, "None", "None"),
                             <<"warning">>)
               /\ UNCHANGED user
          ELSE IF InsufficientPoints(u, v)
          THEN /\ RaiseInTry(p, Exc("ValueError", "Insufficient KBase points.", "None", "None"),
                             <<"error">>)
               /\ UNCHANGED user
          ELSE /\ user' = [user EXCEPT ![p].kbase_points = @ - v.val]
               /\ pc' = [pc EXCEPT ![p] = "save"]
               /\ UNCHANGED <<committed, txOwner, txWrite, args, attempt, fnExc,
                              outcome, log, waited>>
    /\ UNCHANGED <<lastSaveId, update_id, calls>>

\* A save that takes the write of a repeated call for a duplicate.
SaveUserDeduplicates(p, id) ==
    /\ pc[p] = "save"
    /\ txWrite' = IF calls[p].prev.exists THEN txWrite ELSE [txWrite EXCEPT ![p] = user[p]]
    /\ lastSaveId' = [lastSaveId EXCEPT ![p] = id]
    /\ update_id' = [update_id EXCEPT ![p] = id]
    /\ calls' = [calls EXCEPT ![p].nSave = @ + 1]
    /\ log' = [log EXCEPT ![p] = Append(@, "info")]
    /\ pc' = [pc EXCEPT ![p] = "exit"]
    /\ UNCHANGED <<committed, txOwner, args, attempt, user, fnExc, outcome, waited>>

\* update_id = self.dbwrapper.save_user(user), then the info log.
SaveUser(p, id) ==
    /\ pc[p] = "save"
    /\ txWrite' = [txWrite EXCEPT ![p] = user[p]]
    /\ lastSaveId' = [lastSaveId EXCEPT ![p] = id]
    /\ update_id' = [update_id EXCEPT ![p] = id]
    /\ calls' = [calls EXCEPT ![p].nSave = @ + 1]
    /\ log' = [log EXCEPT ![p] = Append(@, "info")]
    /\ pc' = [pc EXCEPT ![p] = "exit"]
    /\ UNCHANGED <<committed, txOwner, args, attempt, user, fnExc, outcome, waited>>

\* save_user raises.
SaveUserRaises(p, cls) ==
    /\ pc[p] = "save"
    /\ calls' = [calls EXCEPT ![p].nSave = @ + 1, ![p].nRaise = @ + 1, ![p].raised = cls]
    /\ RaiseInTry(p, StoreExc(cls), <<>>)
    /\ UNCHANGED <<lastSaveId, user, update_id>>

\* The return statement leaves the transaction scope normally: the store
\* commits the buffered write and the decorator hands the dict to the caller.
TxExit(p) ==
    /\ pc[p] = "exit"
    /\ committed' = IF txWrite[p].present
                    THEN [committed EXCEPT ![txWrite[p].name] = Account(txWrite[p].kbase_points)]
                    ELSE committed
    /\ txOwner' = NoCaller
    /\ txWrite' = [txWrite EXCEPT ![p] = NoneUser]
    /\ calls' = [calls EXCEPT ![p].nCommit = @ + 1]
    /\ outcome' = [outcome EXCEPT ![p] =
                       Returned(Result(args[p].username, user[p], update_id[p]))]
    /\ pc' = [pc EXCEPT ![p] = "done"]
    /\ UNCHANGED <<lastSaveId, args, attempt, user, update_id, fnExc, log, waited>>

\* Leaving the scope raises although the write has been committed.
TxExitRaisesCommitted(p, cls) ==
    /\ pc[p] = "exit"
    /\ calls' = [calls EXCEPT ![p].nRaise = @ + 1, ![p].raised = cls]
    /\ committed' = IF txWrite[p].present
                    THEN [committed EXCEPT ![txWrite[p].name] = Account(txWrite[p].kbase_points)]
                    ELSE committed
    /\ txOwner' = IF txOwner = p THEN NoCaller ELSE txOwner
    /\ txWrite' = [txWrite EXCEPT ![p] = NoneUser]
    /\ fnExc' = [fnExc EXCEPT ![p] = ExceptClauses(StoreExc(cls)).exc]
    /\ log' = [log EXCEPT ![p] = @ \o ExceptClauses(StoreExc(cls)).log]
    /\ pc' = [pc EXCEPT ![p] = "raised"]
    /\ UNCHANGED <<lastSaveId, user, update_id, args, attempt, outcome, waited>>

\* Leaving the scope raises: the commit failed and nothing is committed.
TxExitRaises(p, cls) ==
    /\ pc[p] = "exit"
    /\ calls' = [calls EXCEPT ![p].nRaise = @ + 1, ![p].raised = cls]
    /\ RaiseInTry(p, StoreExc(cls), <<>>)
    /\ UNCHANGED <<lastSaveId, user, update_id>>

\* ------------------------------------------------------ the retry decorator

\* An attempt raised: retry it, re-raise its exception, or give up.
RetryDecide(p) ==
    /\ pc[p] = "raised"
    /\ IF Retried(fnExc[p])
       THEN IF StopAfter(attempt[p])
            THEN /\ outcome' = [outcome EXCEPT ![p] = Raised(RetryError(fnExc[p]))]
                 /\ pc' = [pc EXCEPT ![p] = "done"]
            ELSE /\ pc' = [pc EXCEPT ![p] = "wait"]
                 /\ UNCHANGED outcome
       ELSE /\ outcome' = [outcome EXCEPT ![p] = Raised(fnExc[p])]
            /\ pc' = [pc EXCEPT ![p] = "done"]
    /\ UNCHANGED <<storeVars, args, attempt, user, update_id, fnExc, log, waited, calls>>

\* wait_fixed(1), then the next attempt starts with fresh locals.
Sleep(p) ==
    /\ pc[p] = "wait"
    /\ waited' = [waited EXCEPT ![p] = @ + Wait(attempt[p])]
    /\ attempt' = [attempt EXCEPT ![p] = @ + 1]
    /\ user' = [user EXCEPT ![p] = NoneUser]
    /\ update_id' = [update_id EXCEPT ![p] = NoUpdateId]
    /\ fnExc' = [fnExc EXCEPT ![p] = NoExc]
    /\ calls' = [calls EXCEPT ![p].fetched = NoFetch, ![p].raised = "None"]
    /\ pc' = [pc EXCEPT ![p] = "validate"]
    /\ UNCHANGED <<storeVars, args, outcome, log>>

\* ------------------------------------------------------- specifications

\* One caller, calls one after the other.
Next ==
    \/ \E p \in SeqCallers, username \in Usernames, v \in PointsValues : Call(p, username, v)
    \/ \E p \in SeqCallers : Validate(p)
    \/ \E p \in SeqCallers : TxEnter(p)
    \/ \E p \in SeqCallers, cls \in StoreRaises : TxEnterRaises(p, cls)
    \/ \E p \in SeqCallers : GetUser(p)
    \/ \E p \in SeqCallers, cls \in StoreRaises : GetUserRaises(p, cls)
    \/ \E p \in SeqCallers : CheckUser(p)
    \/ \E p \in SeqCallers, id \in UpdateIds : SaveUser(p, id)
    \/ \E p \in SeqCallers, cls \in StoreRaises : SaveUserRaises(p, cls)
    \/ \E p \in SeqCallers : TxExit(p)
    \/ \E p \in SeqCallers, cls \in StoreRaises : TxExitRaises(p, cls)
    \/ \E p \in SeqCallers : RetryDecide(p)
    \/ \E p \in SeqCallers : Sleep(p)

Spec == Init /\ [][Next]_vars

\* A call in flight keeps running: every store call returns or raises, the
\* decorator's sleep ends.
Step(p) ==
    \/ Validate(p)
    \/ TxEnter(p)
    \/ \E cls \in StoreRaises : TxEnterRaises(p, cls)
    \/ GetUser(p)
    \/ \E cls \in StoreRaises : GetUserRaises(p, cls)
    \/ CheckUser(p)
    \/ \E id \in UpdateIds : SaveUser(p, id)
    \/ \E cls \in StoreRaises : SaveUserRaises(p, cls)
    \/ TxExit(p)
    \/ \E cls \in StoreRaises : TxExitRaises(p, cls)
    \/ RetryDecide(p)
    \/ Sleep(p)

LiveSpec == Spec /\ \A p \in SeqCallers : WF_vars(Step(p))

\* Two callers donate concurrently, one call each, from the same account;
\* the store fails with a generic failure at any primitive.
ConcUsernames == {"alice"}
ConcPoints == [type : {"int"}, val : 1..MaxBalance]
ConcRaises == {"Exception"}

ConcInit == Init /\ committed["bob"] = NoAccount

ConcNext ==
    \/ \E p \in Callers, username \in ConcUsernames, v \in ConcPoints :
          pc[p] = "idle" /\ Call(p, username, v)
    \/ \E p \in Callers : Validate(p)
    \/ \E p \in Callers : TxEnter(p)
    \/ \E p \in Callers, cls \in ConcRaises : TxEnterRaises(p, cls)
    \/ \E p \in Callers : GetUser(p)
    \/ \E p \in Callers, cls \in ConcRaises : GetUserRaises(p, cls)
    \/ \E p \in Callers : CheckUser(p)
    \/ \E p \in Callers, id \in UpdateIds : SaveUser(p, id)
    \/ \E p \in Callers, cls \in ConcRaises : SaveUserRaises(p, cls)
    \/ \E p \in Callers : TxExit(p)
    \/ \E p \in Callers, cls \in ConcRaises : TxExitRaises(p, cls)
    \/ \E p \in Callers : RetryDecide(p)
    \/ \E p \in Callers : Sleep(p)

ConcSpec == ConcInit /\ [][ConcNext]_vars

\* ----------------------------------------------------------------- claims

Done(p) == pc[p] = "done"
InCall(p) == pc[p] # "idle"
Points(p) == args[p].points
Account0(p) == calls[p].before[args[p].username]
IsInteger(v) == v.type \in {"int", "bool"}
NoStoreAccess(p) == calls[p].nTx = 0 /\ calls[p].nGet = 0 /\ calls[p].nSave = 0
ErrorIs(p, cls) == outcome[p].kind = "error" /\ outcome[p].error.cls = cls

\* C1: a call with integer points p, 0 < p <= b, on an account of committed
\* balance b, in which no store call raised, commits exactly one write,
\* which sets the balance to b - p and leaves the other accounts alone, and
\* returns the username, remaining = b - p = the committed balance, and the
\* update_id the store's save returned.
C1_SuccessfulDonation ==
    \A p \in SeqCallers :
        (/\ Done(p)
         /\ calls[p].nRaise = 0
         /\ IsInteger(Points(p))
         /\ Account0(p).exists
         /\ 0 < Points(p).val
         /\ Points(p).val <= Account0(p).kbase_points)
        => /\ outcome[p].kind = "result"
           /\ outcome[p].result.username = args[p].username
           /\ outcome[p].result.remaining_kbase_points
                  = Account0(p).kbase_points - Points(p).val
           /\ committed = [calls[p].before EXCEPT ![args[p].username] =
                               Account(Account0(p).kbase_points - Points(p).val)]
           /\ outcome[p].result.update_id = lastSaveId[p]
           /\ outcome[p].result.update_id \in UpdateIds
           /\ calls[p].nSave = 1
           /\ calls[p].nCommit = 1

C1_Witness ==
    /\ Done(1) /\ calls[1].nRaise = 0 /\ outcome[1].kind = "result"
    /\ Account0(1) = Account(2) /\ Points(1) = [type |-> "int", val |-> 1]
    /\ committed[args[1].username] = Account(1)
    /\ outcome[1].result.update_id = 2

\* C2: when get_user returned an account whose balance is below the points,
\* the call fails with the ValueError for insufficient points, save_user was
\* not called in the call and the committed accounts are as before the call.
C2_InsufficientBalance ==
    \A p \in SeqCallers :
        (/\ Done(p)
         /\ calls[p].fetched.returned
         /\ calls[p].fetched.user.present
         /\ calls[p].fetched.user.kbase_points < Points(p).val)
        => /\ ErrorIs(p, "ValueError")
           /\ outcome[p].error.arg = "Insufficient KBase points."
           /\ calls[p].nSave = 0
           /\ committed = calls[p].before

C2_Witness ==
    /\ Done(1) /\ calls[1].fetched = Fetched(UserObj("alice", 1))
    /\ Points(1) = [type |-> "int", val |-> 2]
    /\ ErrorIs(1, "ValueError") /\ committed["alice"] = Account(1)

\* C3: when get_user returned None, the call fails with the NoSuchUserError
\* of the username, save_user was not called in the call and no account was
\* created or changed.
C3_UserNotFound ==
    \A p \in SeqCallers :
        (Done(p) /\ calls[p].fetched.returned /\ ~calls[p].fetched.user.present)
        => /\ ErrorIs(p, "NoSuchUserError")
           /\ outcome[p].error.arg = args[p].username
           /\ calls[p].nSave = 0
           /\ committed = calls[p].before

C3_Witness ==
    /\ Done(1) /\ calls[1].fetched = Fetched(NoneUser) /\ args[1].username = "bob"
    /\ ErrorIs(1, "NoSuchUserError") /\ committed["bob"] = NoAccount

\* C4: a call whose points are not an integer (a float, a str, None) never
\* calls transaction(), get_user or save_user, and ends with a TypeError.
C4_InvalidType ==
    \A p \in SeqCallers :
        (InCall(p) /\ ~IsInteger(Points(p)))
        => /\ NoStoreAccess(p)
           /\ Done(p) => ErrorIs(p, "TypeError")
           /\ pc[p] \in {"validate", "raised", "done"}

C4_Witness ==
    Done(1) /\ Points(1).type = "float" /\ ErrorIs(1, "TypeError") /\ NoStoreAccess(1)

\* C5: a call whose points are an integer <= 0 never calls transaction(),
\* get_user or save_user, and ends with the ValueError for non-positive
\* points.
C5_NonPositive ==
    \A p \in SeqCallers :
        (InCall(p) /\ IsInteger(Points(p)) /\ Points(p).val <= 0)
        => /\ NoStoreAccess(p)
           /\ Done(p) => (/\ ErrorIs(p, "ValueError")
                          /\ outcome[p].error.arg = "Donation points must be a positive integer.")
           /\ pc[p] \in {"validate", "raised", "done"}

C5_Witness ==
    /\ Done(1) /\ Points(1) = [type |-> "int", val |-> 0]
    /\ ErrorIs(1, "ValueError") /\ NoStoreAccess(1)

\* The store primitive of the attempt raised a timeout or a generic failure.
Transient(e) ==
    e.cls = "DatabaseOperationError" /\ e.cause \in {"FutureTimeoutError", "Exception"}
Immediate(e) == e.cls \in {"TypeError", "ValueError", "NoSuchUserError"}

\* C6: when the third attempt of a call has failed with a wrapped store
\* failure, the caller receives a DatabaseOperationError whose cause is the
\* store failure of that attempt, and the committed accounts are unchanged.
C6_ExhaustedRaisesDatabaseOperationError ==
    \A p \in SeqCallers :
        (Done(p) /\ attempt[p] = StopAfterAttempt /\ Transient(fnExc[p]))
        => /\ ErrorIs(p, "DatabaseOperationError")
           /\ outcome[p].error.cause = fnExc[p].cause
           /\ committed = calls[p].before

\* C7: when get_user timed out in the first k attempts (k = 1, 2), nothing
\* else raised and the balance suffices, the call returns what a call
\* without failure returns, commits the decrement exactly once and has made
\* k + 1 <= 3 attempts.
C7_RetriesTransparent ==
    \A p \in SeqCallers :
        (/\ Done(p)
         /\ calls[p].nRaise \in {1, 2}
         /\ calls[p].nGetTimeout = calls[p].nRaise
         /\ IsInteger(Points(p))
         /\ Account0(p).exists
         /\ 0 < Points(p).val
         /\ Points(p).val <= Account0(p).kbase_points)
        => /\ outcome[p] = Returned([username |-> args[p].username,
                                     remaining_kbase_points |->
                                         Account0(p).kbase_points - Points(p).val,
                                     update_id |-> lastSaveId[p]])
           /\ committed = [calls[p].before EXCEPT ![args[p].username] =
                               Account(Account0(p).kbase_points - Points(p).val)]
           /\ calls[p].nCommit = 1
           /\ calls[p].nSave = 1
           /\ attempt[p] = calls[p].nRaise + 1
           /\ attempt[p] <= 3

C7_Witness ==
    /\ Done(1) /\ calls[1].nGetTimeout = 2 /\ calls[1].nRaise = 2 /\ attempt[1] = 3
    /\ outcome[1].kind = "result" /\ outcome[1].result.remaining_kbase_points = 1
    /\ Account0(1) = Account(2) /\ committed[args[1].username] = Account(1)

\* C8 as stated: a call that ends with a TypeError, a ValueError or a
\* NoSuchUserError raised by the method itself has made exactly one attempt.
C8_ImmediateErrorMeansOneAttempt ==
    \A p \in SeqCallers :
        (/\ Done(p) /\ outcome[p].kind = "error"
         /\ Immediate(outcome[p].error) /\ outcome[p].error.arg # "<store>")
        => attempt[p] = 1

\* C8 as amended: an attempt is followed by another attempt exactly when a
\* store timeout or generic store failure ended it and fewer than 3 attempts
\* have been made; an attempt that raises TypeError, ValueError or
\* NoSuchUserError ends the call on that attempt with that very exception,
\* so a call whose first attempt fails that way makes exactly one attempt.
C8_RetryPolicy ==
    [][\A p \in SeqCallers :
          /\ (pc[p] = "raised" /\ pc'[p] # "raised")
             => /\ pc'[p] \in {"wait", "done"}
                /\ pc'[p] = "wait" <=> (Transient(fnExc[p]) /\ attempt[p] < 3)
                /\ Immediate(fnExc[p])
                     => /\ pc'[p] = "done"
                        /\ outcome'[p] = Raised(fnExc[p])
                        /\ attempt'[p] = attempt[p]
                /\ (Transient(fnExc[p]) /\ attempt[p] >= 3)
                     => pc'[p] = "done" /\ outcome'[p].kind = "error"
          /\ (pc[p] = "wait" /\ pc'[p] # "wait")
             => pc'[p] = "validate" /\ attempt'[p] = attempt[p] + 1
          /\ (pc[p] # "wait" /\ pc[p] \in {"validate", "enter", "get", "check", "save", "exit", "raised"})
             => attempt'[p] = attempt[p]
      ]_vars

C8_Witness ==
    /\ Done(1) /\ attempt[1] = 2 /\ calls[1].nRaise = 1
    /\ ErrorIs(1, "ValueError") /\ outcome[1].error.arg = "Insufficient KBase points."

\* C9: a call makes at most 3 attempts, hence at most 3 calls each of
\* transaction(), get_user and save_user, and every call that has started
\* ends with a result or an error.
C9_Terminates ==
    /\ [](\A p \in SeqCallers :
             /\ attempt[p] <= 3
             /\ calls[p].nTx <= 3 /\ calls[p].nGet <= 3 /\ calls[p].nSave <= 3
             /\ Done(p) => outcome[p].kind \in {"result", "error"})
    /\ \A p \in SeqCallers : (pc[p] \notin {"idle", "done"}) ~> Done(p)

C9_Witness ==
    /\ Done(1) /\ attempt[1] = 3 /\ outcome[1].kind = "error"
    /\ calls[1].nTx = 3 /\ calls[1].nGet = 3 /\ calls[1].nSave = 3

\* C10: the committed balance of every account is a non-negative integer.
C10_BalanceNonNegative ==
    \A n \in Usernames : committed[n].exists => committed[n].kbase_points \in Nat

C10_Witness ==
    /\ Done(1) /\ outcome[1].kind = "result" /\ Account0(1) = Account(2)
    /\ Points(1).val = 2 /\ committed[args[1].username] = Account(0)

\* The committed accounts once the running call of p has donated.
Donated(p) ==
    [calls[p].before EXCEPT ![args[p].username] =
        Account(Account0(p).kbase_points - Points(p).val)]

\* C11: a call is all-or-nothing.  While it runs the committed accounts are
\* those of its start; when it ends with a result, the balance of the
\* account is decremented by the points and an update_id is returned; when
\* it ends with an error, whatever the attempt and the step that failed,
\* the committed accounts are those of its start.
C11_AllOrNothing ==
    \A p \in SeqCallers :
        InCall(p) =>
           /\ ~Done(p) => committed = calls[p].before
           /\ Done(p) => outcome[p].kind \in {"result", "error"}
           /\ (Done(p) /\ outcome[p].kind = "error") => committed = calls[p].before
           /\ (Done(p) /\ outcome[p].kind = "result")
                => /\ Account0(p).exists
                   /\ committed = Donated(p)
                   /\ outcome[p].result.update_id \in UpdateIds
                   /\ outcome[p].result.update_id = lastSaveId[p]
                   /\ outcome[p].result.remaining_kbase_points
                          = committed[args[p].username].kbase_points

C11_Witness ==
    /\ Done(1) /\ outcome[1].kind = "error" /\ attempt[1] = 3
    /\ calls[1].nSave = 3 /\ calls[1].nRaise = 3
    /\ Account0(1) = Account(2) /\ committed = calls[1].before

\* Caller p leaves the scope and returns: the committed balance of account n
\* goes down by exactly the points of p, to the balance p returns.
Commits(p, n) ==
    /\ pc[p] = "exit" /\ pc'[p] = "done" /\ outcome'[p].kind = "result"
    /\ args[p].username = n
    /\ committed[n].exists
    /\ committed'[n] = Account(committed[n].kbase_points - Points(p).val)
    /\ outcome'[p].result.remaining_kbase_points = committed'[n].kbase_points

\* The callers that have called, those that have returned a result, and the
\* balance of account n before the first of the concurrent calls.
Started == {p \in Callers : InCall(p)}
Succeeded == {p \in Callers : Done(p) /\ outcome[p].kind = "result"}
InitialBalance(n) ==
    CHOOSE b \in {calls[p].before[n].kbase_points : p \in Started} :
        \A q \in Started : calls[q].before[n].kbase_points <= b
RECURSIVE SumPoints(_)
SumPoints(ps) ==
    IF ps = {} THEN 0
    ELSE LET p == CHOOSE q \in ps : TRUE IN Points(p).val + SumPoints(ps \ {p})

\* C12: concurrent calls on one account serialize.  The committed balance is
\* always the initial balance minus the points of the calls that have
\* returned a result, it is never negative, and the committed balance
\* changes only when a call returns, by exactly the points of that call.
C12_Serializes ==
    /\ [](\A n \in ConcUsernames :
             /\ committed[n].exists => committed[n].kbase_points >= 0
             /\ (Started # {} /\ committed[n].exists)
                  => committed[n].kbase_points = InitialBalance(n) - SumPoints(Succeeded))
    /\ [][(\A n \in Usernames :
               committed'[n] # committed[n] => \E p \in Callers : Commits(p, n))
           /\
           (\A p \in Callers :
               (pc[p] # "done" /\ pc'[p] = "done" /\ outcome'[p].kind = "result")
                  => Commits(p, args[p].username))
         ]_vars

C12_Witness ==
    /\ Succeeded = Callers
    /\ calls[1].before["alice"] = Account(2) /\ calls[2].before["alice"] = Account(2)
    /\ Points(1).val = 1 /\ Points(2).val = 1
    /\ attempt[1] = 2
    /\ committed["alice"] = Account(0)

\* C13: when a call repeats the arguments (username, points p) of the
\* caller's previous call, that call returned without store failure from a
\* balance b >= 2p, and no store call raises in the second one either, the
\* second call starts from b - p, commits b - 2p with one save of its own
\* and returns remaining = b - 2p with the update_id of that save.
C13_NoDeduplication ==
    \A p \in SeqCallers :
        (/\ Done(p)
         /\ calls[p].nRaise = 0
         /\ calls[p].prev.exists
         /\ calls[p].prev.kbase_points >= 2 * Points(p).val)
        => LET b == calls[p].prev.kbase_points
               v == Points(p).val
           IN /\ Account0(p) = Account(b - v)
              /\ outcome[p].kind = "result"
              /\ outcome[p].result.username = args[p].username
              /\ outcome[p].result.remaining_kbase_points = b - 2 * v
              /\ committed[args[p].username] = Account(b - 2 * v)
              /\ outcome[p].result.update_id = lastSaveId[p]
              /\ outcome[p].result.update_id \in UpdateIds
              /\ calls[p].nSave = 1
              /\ calls[p].nCommit = 1

C13_Witness ==
    /\ Done(1) /\ calls[1].nRaise = 0
    /\ calls[1].prev = Account(2)
    /\ Points(1) = [type |-> "int", val |-> 1]
    /\ outcome[1].kind = "result" /\ outcome[1].result.remaining_kbase_points = 0
    /\ committed[args[1].username] = Account(0)

\* The object get_user hands out for the committed account of p's username.
CommittedUser(p) ==
    IF committed[args[p].username].exists
    THEN UserObj(args[p].username, committed[args[p].username].kbase_points)
    ELSE NoneUser

\* C14: every attempt, retried ones included, has entered a scope of its
\* own and has fetched the account itself when it checks the balance, and
\* what it checks is the balance committed at that time; an attempt that
\* finds the committed balance below the points raises the insufficient
\* points ValueError and neither saves nor commits.
C14_FreshFetchPerAttempt ==
    /\ [](\A p \in Callers :
             /\ pc[p] \in {"get", "check", "save", "exit"}
                  => txOwner = p /\ calls[p].nTx = attempt[p]
             /\ pc[p] = "check"
                  => /\ calls[p].fetched = Fetched(user[p])
                     /\ user[p] = CommittedUser(p))
    /\ [][\A p \in Callers :
             (/\ pc[p] = "check" /\ pc'[p] # "check"
              /\ committed[args[p].username].exists
              /\ committed[args[p].username].kbase_points < Points(p).val)
             => /\ pc'[p] = "raised"
                /\ fnExc'[p] = Exc("ValueError", "Insufficient KBase points.", "None", "None")
                /\ calls'[p].nSave = calls[p].nSave
                /\ txWrite'[p] = NoneUser
                /\ committed' = committed
         ]_vars

C14_Witness ==
    /\ Done(1) /\ ErrorIs(1, "ValueError") /\ attempt[1] = 2
    /\ calls[1].before["alice"] = Account(2) /\ Points(1).val = 2
    /\ calls[1].fetched = Fetched(UserObj("alice", 1))
    /\ Succeeded = {2} /\ calls[2].before["alice"] = Account(2)
    /\ committed["alice"] = Account(1)

\* C15: the decorator sleeps exactly 1 time-unit between any two consecutive
\* attempts and not before the first one, so a call that is in its n-th
\* attempt, or has ended after n attempts, has waited n - 1 time-units.
C15_FixedDelay ==
    /\ [](\A p \in SeqCallers : InCall(p) => waited[p] = attempt[p] - 1)
    /\ [][\A p \in SeqCallers :
             /\ (pc[p] = "wait" /\ pc'[p] # "wait")
                  => attempt'[p] = attempt[p] + 1 /\ waited'[p] = waited[p] + 1
             /\ (pc[p] # "wait" /\ pc'[p] # "validate") => waited'[p] = waited[p]
             /\ (pc[p] \in {"idle", "done"} /\ pc'[p] = "validate")
                  => attempt'[p] = 1 /\ waited'[p] = 0
         ]_vars

C15_Witness == Done(1) /\ attempt[1] = 3 /\ waited[1] = 2 /\ outcome[1].kind = "result"

\* The severity the kind of an outcome calls for.
Severity(o) ==
    IF o.kind = "result" THEN "info"
    ELSE IF o.error.cls = "NoSuchUserError" THEN "warning"
    ELSE IF o.error.cls \in {"TypeError", "ValueError"} THEN "error"
    ELSE "critical"

\* C16: when a call ends, the last event logged during the call has the
\* severity of the outcome: info for a result, warning for not-found, error
\* for a validation failure or an insufficient balance, critical for a store
\* failure; so every failing call has logged before its error propagates.
C16_OutcomeLogged ==
    \A p \in SeqCallers :
        Done(p) => /\ log[p] # <<>>
                   /\ log[p][Len(log[p])] = Severity(outcome[p])

\* C17: when save_user or the scope exit of earlier attempts failed after
\* the fetched object had been decremented, and a later attempt of the call
\* succeeds, the committed balance is the initial one minus the points,
\* committed once, and that is the remaining balance returned.
C17_DecrementedOnce ==
    \A p \in SeqCallers :
        (Done(p) /\ outcome[p].kind = "result" /\ calls[p].nSave >= 2)
        => /\ committed = Donated(p)
           /\ outcome[p].result.remaining_kbase_points
                  = Account0(p).kbase_points - Points(p).val
           /\ calls[p].nCommit = 1

C17_Witness ==
    /\ Done(1) /\ outcome[1].kind = "result" /\ attempt[1] = 3
    /\ calls[1].nSave = 3 /\ calls[1].nRaise = 2
    /\ Account0(1) = Account(2) /\ Points(1).val = 1
    /\ committed[args[1].username] = Account(1)

\* C18: an exception raised by a store primitive leaves the attempt as a
\* DatabaseOperationError whose cause it is, and the attempt is retried
\* while fewer than 3 attempts have been made, unless it is a ValueError or
\* a NoSuchUserError: these leave the attempt as they are and reach the
\* caller on that attempt.
C18_StoreExceptions ==
    [][\A p \in SeqCallers :
          /\ calls'[p].nRaise = calls[p].nRaise + 1
               => /\ pc'[p] = "raised"
                  /\ calls'[p].raised \in StoreRaises
                  /\ fnExc'[p] =
                        IF calls'[p].raised \in {"ValueError", "NoSuchUserError"}
                        THEN StoreExc(calls'[p].raised)
                        ELSE Exc("DatabaseOperationError",
                                 "Failed to process donation after retries.",
                                 calls'[p].raised, "None")
          /\ (pc[p] = "raised" /\ pc'[p] # "raised" /\ calls[p].raised # "None")
               => IF calls[p].raised \in {"ValueError", "NoSuchUserError"}
                  THEN /\ pc'[p] = "done"
                       /\ outcome'[p] = Raised(StoreExc(calls[p].raised))
                       /\ attempt'[p] = attempt[p]
                  ELSE IF attempt[p] < 3
                  THEN pc'[p] = "wait"
                  ELSE pc'[p] = "done" /\ outcome'[p].kind = "error"
      ]_vars

C18_Witness ==
    /\ Done(1) /\ attempt[1] = 2 /\ calls[1].nRaise = 2 /\ calls[1].nSave = 2
    /\ outcome[1] = Raised(StoreExc("ValueError"))

\* C19: the balance check is strict.  Without store failure, donating the
\* whole balance b > 0 returns remaining = 0 and commits 0; donating b + 1
\* fails with the insufficient points ValueError and commits nothing.
C19_WholeBalance ==
    \A p \in SeqCallers :
        (/\ Done(p) /\ calls[p].nRaise = 0 /\ IsInteger(Points(p))
         /\ Account0(p).exists /\ Account0(p).kbase_points > 0)
        => /\ Points(p).val = Account0(p).kbase_points
                => /\ outcome[p].kind = "result"
                   /\ outcome[p].result.remaining_kbase_points = 0
                   /\ committed[args[p].username] = Account(0)
           /\ Points(p).val = Account0(p).kbase_points + 1
                => /\ ErrorIs(p, "ValueError")
                   /\ outcome[p].error.arg = "Insufficient KBase points."
                   /\ committed = calls[p].before

C19_Witness ==
    /\ Done(1) /\ calls[1].nRaise = 0 /\ Account0(1) = Account(2)
    /\ Points(1) = [type |-> "int", val |-> 2]
    /\ outcome[1].kind = "result" /\ outcome[1].result.remaining_kbase_points = 0
    /\ lastSaveId[1] = 1

====
